---- MODULE Spec2Model ----
(***************************************************************************)
(* framequery: the logical-plan executor (BaseExecutor) and the entry      *)
(* points of the SQL parser (tokenize, parse).                             *)
(*                                                                         *)
(* The executor is modelled as a call-stack machine: one frame per active  *)
(* evaluate_<kind> handler, one action per handler segment between two     *)
(* recursive self.evaluate calls.  A raised exception unwinds the whole    *)
(* stack in the raising step (no handler catches).                         *)
(***************************************************************************)
EXTENDS Integers, Sequences, FiniteSets, TLC

\* ---------------------------------------------------------------- bounds
MaxOps == 2      \* operator (non-leaf) nodes of the DAG
MaxCols == 2     \* columns of one Transform / Aggregate node
MaxTables == 2   \* sub-plans of one DefineTables node
MaxQueryLen == 3 \* lexemes of a query string
MaxDepth == 2    \* operator nodes above a leaf in a DAG evaluated twice
MaxSeqLen == 5   \* elements of the list build_binary_tree folds
MaxJoins == 3    \* elements after the base in the list build_joins folds

\* ---------------------------------------------------------------- values
None == "None"          \* Python None where a string is expected
Null == 0               \* the backend's missing value (NaN)

Range(s) == {s[i] : i \in 1..Len(s)}
Last(s) == s[Len(s)]
Positions(n) == [i \in 1..n |-> i - 1]      \* the canonical row index 0..n-1

RECURSIVE SeqsUpTo(_, _)
\* all sequences over S of length 1..n
SeqsUpTo(S, n) ==
    IF n = 0 THEN {}
    ELSE {<<x>> : x \in S} \cup SeqsUpTo(S, n - 1)
         \cup {Append(s, x) : s \in SeqsUpTo(S, n - 1), x \in S}

\* ------------------------------------------------------------ expressions
ColumnReference(parts) == [type |-> "ColumnReference", value |-> parts]
Integer(v) == [type |-> "Integer", value |-> v]
BinaryExpression(op, l, r) ==
    [type |-> "BinaryExpression", operator |-> op, left |-> l, right |-> r]
GeneralSetFunction(f, v, q) ==
    [type |-> "GeneralSetFunction", function |-> f, value |-> v, quantifier |-> q]
Column(v, a) == [value |-> v, alias |-> a]

\* ----------------------------------------------------------------- tables
\* A table: column names (sequences of parts), the row labels, and one value
\* sequence per column.  A series is one column with its row labels.
Table(cols, idx, data) == [columns |-> cols, index |-> idx, data |-> data]
Series(idx, vals) == [index |-> idx, values |-> vals]
NRows(t) == Len(t.index)
Row(t, i) == [c \in 1..Len(t.columns) |-> t.data[c][i]]

column_from_parts(table_id, col_id) == <<table_id, col_id>>

\* rows of t at the positions listed in keep (a sequence of row numbers)
TakeRows(t, keep) ==
    Table(t.columns,
          [j \in 1..Len(keep) |-> t.index[keep[j]]],
          [c \in 1..Len(t.columns) |-> [j \in 1..Len(keep) |-> t.data[c][keep[j]]]])

RECURSIVE SelectPos(_, _, _)
\* the positions i..n that satisfy P, ascending
SelectPos(P(_), i, n) ==
    IF i > n THEN <<>>
    ELSE IF P(i) THEN <<i>> \o SelectPos(P, i + 1, n)
    ELSE SelectPos(P, i + 1, n)

\* table[condition]: keep the rows whose mask value is truthy; labels kept
Mask(t, condition) ==
    LET P(i) == condition.values[i] = TRUE
    IN  TakeRows(t, SelectPos(P, 1, NRows(t)))

_reset_index(df) == Table(df.columns, Positions(NRows(df)), df.data)

drop_duplicates(t) ==
    LET P(i) == \A j \in 1..(i - 1) : Row(t, j) # Row(t, i)
    IN  TakeRows(t, SelectPos(P, 1, NRows(t)))

_get_dual == Table(<<>>, <<0>>, <<>>)

ensure_table_columns(alias, t) ==
    Table([c \in 1..Len(t.columns) |-> <<alias, Last(t.columns[c])>>],
          t.index, t.data)

\* the positions of the columns a reference designates
_col_matches(ref, columns) ==
    {c \in 1..Len(columns) :
        /\ Last(columns[c]) = Last(ref)
        /\ Len(ref) = 2 => (Len(columns[c]) = 2 /\ columns[c][1] = ref[1])}

\* 0 stands for the ValueError of a missing or ambiguous reference
_normalize_col_ref(ref, columns) ==
    LET m == _col_matches(ref, columns)
    IN  IF Cardinality(m) = 1 THEN CHOOSE c \in m : TRUE ELSE 0

RECURSIVE evaluate_value(_, _)
\* [ok, series]: the value of an expression over a table, row by row
evaluate_value(e, t) ==
    CASE e.type = "ColumnReference" ->
            LET c == _normalize_col_ref(e.value, t.columns)
            IN  IF c = 0 THEN [ok |-> FALSE]
                ELSE [ok |-> TRUE, series |-> Series(t.index, t.data[c])]
      [] e.type = "Integer" ->
            [ok |-> TRUE,
             series |-> Series(t.index, [i \in 1..NRows(t) |-> e.value])]
      [] e.type = "BinaryExpression" ->
            LET l == evaluate_value(e.left, t)
                r == evaluate_value(e.right, t)
                lv(i) == l.series.values[i]
                rv(i) == r.series.values[i]
                known(i) == lv(i) # Null /\ rv(i) # Null
            IN  IF ~l.ok \/ ~r.ok THEN [ok |-> FALSE]
                ELSE [ok |-> TRUE,
                      series |-> Series(t.index,
                        [i \in 1..NRows(t) |->
                           CASE e.operator = "=" -> known(i) /\ lv(i) = rv(i)
                             [] e.operator = "<" -> known(i) /\ lv(i) < rv(i)
                             [] e.operator = "and" ->
                                    lv(i) = TRUE /\ rv(i) = TRUE])]
      [] OTHER -> [ok |-> FALSE]

\* Given the ordered mapping name -> series, construct a table.
_combine_series(result) ==
    Table([c \in 1..Len(result) |-> result[c].name],
          IF Len(result) = 0 THEN <<>> ELSE result[1].value.index,
          [c \in 1..Len(result) |-> result[c].value.values])

\* Given the ordered mapping name -> scalar, construct a one-row table.
_dataframe_from_scalars(values) ==
    Table([c \in 1..Len(values) |-> values[c].name],
          <<0>>,
          [c \in 1..Len(values) |-> <<values[c].value>>])

\* OrderedDict assignment result[key] = value: a key already present keeps
\* its position and takes the new value, a new key is appended.
DictSet(d, key, value) ==
    IF \E i \in 1..Len(d) : d[i].name = key
    THEN [i \in 1..Len(d) |->
            IF d[i].name = key THEN [name |-> key, value |-> value] ELSE d[i]]
    ELSE Append(d, [name |-> key, value |-> value])

\* ------------------------------------------------------- joins (backend)
RECURSIVE FlatMap(_, _, _)
\* f(i) \o f(i+1) \o ... \o f(n)
FlatMap(f(_), i, n) == IF i > n THEN <<>> ELSE f(i) \o FlatMap(f, i + 1, n)

ColumnPos(t, name) == CHOOSE c \in 1..Len(t.columns) : t.columns[c] = name

\* the row pairs <<i, j>> of a join; 0 marks the side filled with Null
JoinPairs(left, right, how, match(_, _)) ==
    LET nl == NRows(left)
        nr == NRows(right)
        ofLeft(i) ==
            LET P(j) == match(i, j)
                js == SelectPos(P, 1, nr)
            IN  IF Len(js) = 0 /\ how \in {"left", "outer"} THEN << <<i, 0>> >>
                ELSE [n \in 1..Len(js) |-> <<i, js[n]>>]
        ofRight(j) ==
            LET P(i) == match(i, j)
                is == SelectPos(P, 1, nl)
            IN  IF Len(is) = 0 THEN << <<0, j>> >>
                ELSE [n \in 1..Len(is) |-> <<is[n], j>>]
        unmatched(j) ==
            IF \E i \in 1..nl : match(i, j) THEN <<>> ELSE << <<0, j>> >>
    IN  CASE how = "inner" -> FlatMap(ofLeft, 1, nl)
          [] how = "left"  -> FlatMap(ofLeft, 1, nl)
          [] how = "right" -> FlatMap(ofRight, 1, nr)
          [] how = "outer" -> FlatMap(ofLeft, 1, nl) \o FlatMap(unmatched, 1, nr)

\* the table of the listed row pairs: the columns of both inputs, fresh labels
PairsTable(left, right, pairs) ==
    LET wl == Len(left.columns)
        cell(c, p) ==
            IF c <= wl
            THEN IF pairs[p][1] = 0 THEN Null ELSE left.data[c][pairs[p][1]]
            ELSE IF pairs[p][2] = 0 THEN Null ELSE right.data[c - wl][pairs[p][2]]
    IN  Table(left.columns \o right.columns,
              Positions(Len(pairs)),
              [c \in 1..(wl + Len(right.columns)) |->
                  [p \in 1..Len(pairs) |-> cell(c, p)]])

\* equi-join on the key lists (column names of the left and the right input)
_merge(left, right, how, left_on, right_on) ==
    LET match(i, j) ==
            \A n \in 1..Len(left_on) :
                left.data[ColumnPos(left, left_on[n])][i]
                    = right.data[ColumnPos(right, right_on[n])][j]
    IN  PairsTable(left, right, JoinPairs(left, right, how, match))

cross_product(left, right) ==
    LET all(i, j) == TRUE
    IN  PairsTable(left, right, JoinPairs(left, right, "inner", all))

IsEquality(e) ==
    /\ e.type = "BinaryExpression"
    /\ e.operator = "="
    /\ e.left.type = "ColumnReference"
    /\ e.right.type = "ColumnReference"

RECURSIVE is_equality_join(_)
\* on is an equality of two column references, or a conjunction of such
is_equality_join(on) ==
    \/ IsEquality(on)
    \/ /\ on.type = "BinaryExpression"
       /\ on.operator = "and"
       /\ is_equality_join(on.left)
       /\ is_equality_join(on.right)

RECURSIVE Equalities(_)
\* the equalities of an equality join, left to right
Equalities(on) ==
    IF IsEquality(on) THEN <<on>> ELSE Equalities(on.left) \o Equalities(on.right)

\* [ok, left_on, right_on]: per equality the column of the left and of the
\* right input; not ok when an equality does not pair one column of each
as_pandas_join_condition(left_columns, right_columns, on) ==
    LET eqs == Equalities(on)
        l(ref) == _normalize_col_ref(ref.value, left_columns)
        r(ref) == _normalize_col_ref(ref.value, right_columns)
        straight(e) == l(e.left) # 0 /\ r(e.right) # 0
        swapped(e) == l(e.right) # 0 /\ r(e.left) # 0
    IN  IF \E n \in 1..Len(eqs) : ~straight(eqs[n]) /\ ~swapped(eqs[n])
        THEN [ok |-> FALSE]
        ELSE [ok |-> TRUE,
              left_on |-> [n \in 1..Len(eqs) |->
                  IF straight(eqs[n]) THEN left_columns[l(eqs[n].left)]
                  ELSE left_columns[l(eqs[n].right)]],
              right_on |-> [n \in 1..Len(eqs) |->
                  IF straight(eqs[n]) THEN right_columns[r(eqs[n].right)]
                  ELSE right_columns[r(eqs[n].left)]]]

\* ------------------------------------------------- aggregates (backend)
RECURSIVE SumSeq(_)
SumSeq(s) == IF Len(s) = 0 THEN 0 ELSE s[1] + SumSeq(Tail(s))

NonNull(vals) == LET P(i) == vals[i] # Null IN
    [n \in 1..Len(SelectPos(P, 1, Len(vals))) |-> vals[SelectPos(P, 1, Len(vals))[n]]]

Upper(name) ==
    CASE name = "sum" -> "SUM"
      [] name = "Max" -> "MAX"
      [] name = "first_value" -> "FIRST_VALUE"
      [] name = "median" -> "MEDIAN"
      [] OTHER -> name

\* the scalar aggregates of a series, null-skipping.  The mean is kept as
\* the pair <<sum, count>>; an aggregate of no value is Null.
col_sum(vals) == SumSeq(NonNull(vals))
col_count(vals) == Len(NonNull(vals))
col_mean(vals) == IF col_count(vals) = 0 THEN Null ELSE <<col_sum(vals), col_count(vals)>>
col_min(vals) ==
    IF col_count(vals) = 0 THEN Null
    ELSE CHOOSE v \in Range(NonNull(vals)) : \A w \in Range(NonNull(vals)) : v <= w
col_max(vals) ==
    IF col_count(vals) = 0 THEN Null
    ELSE CHOOSE v \in Range(NonNull(vals)) : \A w \in Range(NonNull(vals)) : v >= w

\* ------------------------------------------------------------- id generator
\* default_id_generator yields "$0", "$1", ...; the state of a generator is
\* the number of ids it has yielded.
default_id_generator == 0
IdOf(n) == "$" \o ToString(n)

\* the alias, else the terminal name of a bare column reference, else None
get_selected_column_name(col) ==
    IF col.alias # None THEN col.alias
    ELSE IF col.value.type = "ColumnReference" THEN Last(col.value.value)
    ELSE None

\* ------------------------------------------------------------- DAG nodes
\* The DAG is an input of evaluate.  A part of it the code has not read yet
\* may be left open (Unread, UnreadColumns): the model then draws it when
\* the code first reads it -- a child node when self.evaluate is called on
\* it, a column when the loop over node.columns reaches it, group_by and how
\* where the handler reads them.  What an evaluation that raises leaves
\* unread is never drawn.
Unread == [kind |-> "unread"]
UnreadColumns == <<Column([type |-> "unread"], None)>>
IsUnreadColumns(cols) == Len(cols) = 1 /\ cols[1].value.type = "unread"
UnreadHow == "unread"

Literal(value) == [kind |-> "literal", value |-> value]
GetTable(table, alias) == [kind |-> "get_table", table |-> table, alias |-> alias]
DefineTables(tabs, node) == [kind |-> "define_tables", tables |-> tabs, node |-> node]
Transform(table, columns) == [kind |-> "transform", table |-> table, columns |-> columns]
Filter(table, filter) == [kind |-> "filter", table |-> table, filter |-> filter]
DropDuplicates(table) == [kind |-> "drop_duplicates", table |-> table]
Aggregate(table, columns, group_by) ==
    [kind |-> "aggregate", table |-> table, columns |-> columns, group_by |-> group_by]
Join(left, right, how, on) ==
    [kind |-> "join", left |-> left, right |-> right, how |-> how, on |-> on]

\* group_by: None, or a list of GROUP BY targets
NoGroupBy == [is_none |-> TRUE]
GroupBy(targets) == [is_none |-> FALSE, targets |-> targets]
UnreadGroupBy == GroupBy(<<[type |-> "unread"]>>)
IsUnreadGroupBy(g) == ~g.is_none /\ g.targets[1].type = "unread"

\* ---------------------------------------------------- the inputs explored
K == ColumnReference(<<"k">>)
TK == ColumnReference(<<"t", "k">>)
UK == ColumnReference(<<"u", "k">>)
One == Integer(1)

TableNames == {"DUAL", "t", "u"}
ColumnAliases == {None, "c"}
Hows == {"inner", "outer", "left", "right"}
OnExprs == {BinaryExpression("=", TK, UK),
            BinaryExpression("and", BinaryExpression("=", TK, UK),
                                    BinaryExpression("=", UK, TK)),
            BinaryExpression("<", TK, UK)}
FilterExprs == {BinaryExpression("=", K, One)}
FunctionNames == {"sum", "median"}
Quantifiers == {None, "distinct"}
GroupBys == {NoGroupBy, GroupBy(<<K>>), GroupBy(<<One>>)}

TransformColumns == {Column(v, a) : v \in {K, One}, a \in ColumnAliases}
AggregateColumns ==
    {Column(v, a) :
        v \in {K} \cup {GeneralSetFunction(f, x, q) :
                          f \in FunctionNames, x \in {K, One}, q \in Quantifiers},
        a \in ColumnAliases}

\* every table name without an alias, and an aliased reference
GetTables == {GetTable(n, None) : n \in TableNames} \cup {GetTable("t", "v")}
\* the (name, sub_node) lists of a DefineTables node: distinct names
TableLists ==
    {tabs \in SeqsUpTo({<<n, Unread>> : n \in {"t", "u"}}, MaxTables) :
        \A i, j \in 1..Len(tabs) : i # j => tabs[i][1] # tabs[j][1]}

\* the node heads a child may turn out to be when n operator nodes are read
Heads(n) ==
    GetTables \cup
    IF n >= MaxOps THEN {}
    ELSE {Transform(Unread, UnreadColumns), DropDuplicates(Unread),
          Aggregate(Unread, UnreadColumns, UnreadGroupBy)}
         \cup {Filter(Unread, f) : f \in FilterExprs}
         \cup {Join(Unread, Unread, UnreadHow, on) : on \in OnExprs}
         \cup {DefineTables(tabs, Unread) : tabs \in TableLists}

ReadNode(node, n) == IF node.kind = "unread" THEN Heads(n) ELSE {node}
\* 1 when reading field as child adds an operator node to the DAG
Reads(field, child) ==
    IF field.kind = "unread" /\ child.kind # "get_table" THEN 1 ELSE 0
ReadColumns(cols, choices) ==
    IF IsUnreadColumns(cols) THEN SeqsUpTo(choices, MaxCols) ELSE {cols}
ReadGroupBy(g) == IF IsUnreadGroupBy(g) THEN GroupBys ELSE {g}
ReadHow(how) == IF how = UnreadHow THEN Hows ELSE {how}
\* the loop over columns reads every column of the list: no earlier one raises
ReadInOrder(columns, body(_)) ==
    \A n \in 1..(Len(columns) - 1) : body(SubSeq(columns, 1, n)).exc = None

\* the name -> table mappings a host passes as the scope (raw column names)
HostTable(vals) == Table(<< <<"k">> >>, Positions(Len(vals)), <<vals>>)
HostScopes ==
    { [n \in {"t"} |-> HostTable(<<1, 1>>)],
      [n \in {"t", "u"} |-> IF n = "t" THEN HostTable(<<1, 2>>)
                            ELSE HostTable(<<2, 3>>)] }

\* ------------------------------------------------- handler bodies (pure)
\* next(self.id_generator)
NextId(gen) == [id |-> IdOf(gen), gen |-> gen + 1]

Draw(what, id) == [what |-> what, id |-> id]

\* a column name taken from the alias only, or else drawn
_get_selected_column_name_alias_only(col, gen) ==
    IF col.alias # None
    THEN [col_id |-> col.alias, gen |-> gen, drawn |-> <<>>]
    ELSE [col_id |-> NextId(gen).id, gen |-> NextId(gen).gen,
          drawn |-> <<Draw("col_id", NextId(gen).id)>>]

\* BaseExecutor._get_selected_column_name: [col_id, gen, drawn]
_get_selected_column_name(col, gen) ==
    LET col_id == get_selected_column_name(col)
    IN  IF col_id # None
        THEN [col_id |-> col_id, gen |-> gen, drawn |-> <<>>]
        ELSE [col_id |-> NextId(gen).id, gen |-> NextId(gen).gen,
              drawn |-> <<Draw("col_id", NextId(gen).id)>>]

\* a table_id read off the generator without advancing it
transform_table_id_peek(gen) == [id |-> IdOf(gen), gen |-> gen]

\* table_id = next(self.id_generator) of evaluate_transform
transform_table_id(gen) == NextId(gen)

RECURSIVE transform_loop(_, _, _, _, _)
\* the loop of evaluate_transform from column i on; st = [exc, gen, draws, result]
transform_loop(columns, i, table, table_id, st) ==
    IF i > Len(columns) THEN st
    ELSE LET col == columns[i]
             sel == _get_selected_column_name(col, st.gen)
             value == evaluate_value(col.value, table)
             drawn == st.draws \o sel.drawn
         IN  IF ~value.ok
             THEN [exc |-> "ValueError", gen |-> sel.gen, draws |-> drawn,
                   result |-> st.result]
             ELSE transform_loop(columns, i + 1, table, table_id,
                    [exc |-> None, gen |-> sel.gen, draws |-> drawn,
                     result |-> DictSet(st.result,
                                        column_from_parts(table_id, sel.col_id),
                                        value.series)])

\* evaluate_transform after the input is evaluated: [exc, gen, draws, table]
transform_body(columns, table, gen) ==
    LET tid == transform_table_id(gen)
        st == transform_loop(columns, 1, table, tid.id,
                [exc |-> None, gen |-> tid.gen,
                 draws |-> <<Draw("table_id", tid.id)>>, result |-> <<>>])
    IN  [exc |-> st.exc, gen |-> st.gen, draws |-> st.draws,
         table |-> _combine_series(st.result)]

\* BaseExecutor._first
_first(vals) ==
    IF Len(vals) = 0 THEN [exc |-> "IndexError"] ELSE [exc |-> None, value |-> vals[1]]

SetFunctions == {"SUM", "AVG", "MIN", "MAX", "COUNT", "FIRST_VALUE"}

\* impls[function](col)
impl(function, vals) ==
    CASE function = "SUM" -> [exc |-> None, value |-> col_sum(vals)]
      [] function = "AVG" -> [exc |-> None, value |-> col_mean(vals)]
      [] function = "MIN" -> [exc |-> None, value |-> col_min(vals)]
      [] function = "MAX" -> [exc |-> None, value |-> col_max(vals)]
      [] function = "COUNT" -> [exc |-> None, value |-> col_count(vals)]
      [] function = "FIRST_VALUE" -> _first(vals)

\* BaseExecutor._agg: [exc, value]
_agg(node, table, columns) ==
    IF node.type # "GeneralSetFunction" THEN [exc |-> "ValueError"]
    ELSE IF node.value.type # "ColumnReference" THEN [exc |-> "ValueError"]
    ELSE LET function == Upper(node.function)
             col_ref == _normalize_col_ref(node.value.value, columns)
         IN  IF col_ref = 0 THEN [exc |-> "ValueError"]
             ELSE IF node.quantifier # None THEN [exc |-> "AssertionError"]
             ELSE IF function \notin SetFunctions THEN [exc |-> "ValueError"]
             ELSE impl(function, table.data[col_ref])

\* col_id of _evaluate_aggregation_base: [col_id, gen, drawn]
aggregation_col_id(col, gen) ==
    IF col.alias # None
    THEN [col_id |-> col.alias, gen |-> gen, drawn |-> <<>>]
    ELSE [col_id |-> NextId(gen).id, gen |-> NextId(gen).gen,
          drawn |-> <<Draw("col_id", NextId(gen).id)>>]

RECURSIVE aggregation_loop(_, _, _, _, _, _)
\* the loop of _evaluate_aggregation_base from column i on
aggregation_loop(node_columns, i, table, columns, table_id, st) ==
    IF i > Len(node_columns) THEN st
    ELSE LET col == node_columns[i]
             sel == aggregation_col_id(col, st.gen)
             value == _agg(col.value, table, columns)
             drawn == st.draws \o sel.drawn
         IN  IF value.exc # None
             THEN [exc |-> value.exc, gen |-> sel.gen, draws |-> drawn,
                   result |-> st.result]
             ELSE aggregation_loop(node_columns, i + 1, table, columns, table_id,
                    [exc |-> None, gen |-> sel.gen, draws |-> drawn,
                     result |-> DictSet(st.result,
                                        column_from_parts(table_id, sel.col_id),
                                        value.value)])

\* BaseExecutor._evaluate_aggregation_base; table_id = None draws a fresh one
_evaluate_aggregation_base(node_columns, table, columns, table_id, gen) ==
    LET tid == IF table_id = None THEN NextId(gen) ELSE [id |-> table_id, gen |-> gen]
        first == IF table_id = None THEN <<Draw("table_id", tid.id)>> ELSE <<>>
    IN  aggregation_loop(node_columns, 1, table, columns, tid.id,
            [exc |-> None, gen |-> tid.gen, draws |-> first, result |-> <<>>])

\* BaseExecutor._evaluate_aggregation_non_grouped: [exc, gen, draws, table]
_evaluate_aggregation_non_grouped(node_columns, table, gen) ==
    LET values == _evaluate_aggregation_base(node_columns, table, table.columns, None, gen)
    IN  [exc |-> values.exc, gen |-> values.gen, draws |-> values.draws,
         table |-> _dataframe_from_scalars(values.result)]

\* BaseExecutor._get_group_columns: [exc, cols]
_get_group_columns(table, group_by) ==
    IF ~ \A n \in 1..Len(group_by) : group_by[n].type = "ColumnReference"
    THEN [exc |-> "ValueError"]
    ELSE LET cols == [n \in 1..Len(group_by) |->
                        _normalize_col_ref(group_by[n].value, table.columns)]
         IN  IF \E n \in 1..Len(cols) : cols[n] = 0 THEN [exc |-> "ValueError"]
             ELSE [exc |-> None, cols |-> cols]

\* _evaluate_aggregation_grouped: one row per group of equal group-column
\* values (in order of first appearance), one column table_id.col_id per
\* declared output column
_evaluate_aggregation_grouped(node_columns, group_by, table, gen) ==
    LET group_cols == _get_group_columns(table, group_by)
        key(i) == [n \in 1..Len(group_cols.cols) |-> table.data[group_cols.cols[n]][i]]
        isFirst(i) == \A j \in 1..(i - 1) : key(j) # key(i)
        firsts == SelectPos(isFirst, 1, NRows(table))
        group(g) == LET P(i) == key(i) = key(firsts[g])
                    IN  TakeRows(table, SelectPos(P, 1, NRows(table)))
        tid == NextId(gen)
        named == _evaluate_aggregation_base(node_columns, table, table.columns,
                                            tid.id, tid.gen)
        ofGroup(g) == _evaluate_aggregation_base(node_columns, group(g),
                                                 table.columns, tid.id, tid.gen)
    IN  IF group_cols.exc # None
        THEN [exc |-> group_cols.exc, gen |-> gen, draws |-> <<>>, table |-> _get_dual]
        ELSE IF named.exc # None
        THEN [exc |-> named.exc, gen |-> named.gen,
              draws |-> <<Draw("table_id", tid.id)>> \o named.draws, table |-> _get_dual]
        ELSE [exc |-> None, gen |-> named.gen,
              draws |-> <<Draw("table_id", tid.id)>> \o named.draws,
              table |-> Table([c \in 1..Len(named.result) |-> named.result[c].name],
                              Positions(Len(firsts)),
                              [c \in 1..Len(named.result) |->
                                  [g \in 1..Len(firsts) |-> ofGroup(g).result[c].value]])]

\* evaluate_aggregate after the input is evaluated: [exc, gen, draws, table]
aggregate_body(node_columns, group_by, table, gen) ==
    IF group_by.is_none
    THEN _evaluate_aggregation_non_grouped(node_columns, table, gen)
    ELSE _evaluate_aggregation_grouped(node_columns, group_by.targets, table, gen)

\* evaluate_filter after the input is evaluated: [exc, table]
filter_body(filter, table) ==
    LET condition == evaluate_value(filter, table)
    IN  IF ~condition.ok THEN [exc |-> "ValueError"]
        ELSE [exc |-> None, table |-> _reset_index(Mask(table, condition.series))]

\* ------------------------------------------------------------------ state
VARIABLES
    strict,        \* BaseExecutor.strict
    id_generator,  \* self.id_generator: the number of ids yielded so far
    dag,           \* the node the host evaluates
    ops,           \* the operator nodes of the DAG read so far
    root_scope,    \* the scope mapping the host passes to evaluate
    scopes,        \* the scope objects alive; a frame holds a reference
    stack,         \* the active evaluate_<kind> handlers, innermost last
    ret,           \* the value the handler that just returned handed back
    exc,           \* the exception that ended the evaluation, or None
    log,           \* the ids drawn so far, in order, with the drawing node
    last,          \* the handler call that ended last (returned or raised)
    calls,         \* evaluations started by the host
    prev,          \* the outcome of the host's previous evaluation
    query,         \* parse: the query string, as a sequence of lexemes
    what,          \* parse: the parser selected by the caller
    parsed,        \* parse: the outcome of parse(query, what)
    fold_seq,      \* build_binary_tree, build_joins: the match list passed
    built          \* build_binary_tree, build_joins: position and outcome

exec_vars == <<strict, id_generator, dag, ops, root_scope, scopes, stack, ret, exc,
               log, last, calls, prev>>
build_vars == <<fold_seq, built>>
parse_vars == <<query, what, parsed, fold_seq, built>>
vars == <<strict, id_generator, dag, ops, root_scope, scopes, stack, ret, exc,
          log, last, calls, prev, query, what, parsed, fold_seq, built>>

NoValue == [has |-> FALSE]
Value(v) == [has |-> TRUE, value |-> v]
NoCall == [kind |-> "none"]
NoRun == [done |-> FALSE]

Top == stack[Len(stack)]
Below == SubSeq(stack, 1, Len(stack) - 1)
At(kind, pc) ==
    /\ exc = None
    /\ Len(stack) > 0
    /\ Top.node.kind = kind
    /\ Top.pc = pc

\* the frame of evaluate(node, scope)
Frame(node, path, scope) ==
    [node |-> node, path |-> path, scope_in |-> scope, scope |-> scope,
     pc |-> "start", vals |-> <<>>, trace |-> <<>>]

Logged(path, draws) == [n \in 1..Len(draws) |->
    [node |-> path, what |-> draws[n].what, id |-> draws[n].id]]

\* what a handler call did, seen when it ends
CallRecord(f, draws, result, e) ==
    [kind |-> f.node.kind, node |-> f.node, path |-> f.path,
     scope_in |-> f.scope_in, scope |-> f.scope, vals |-> f.vals,
     trace |-> f.trace, draws |-> draws, gen |-> id_generator,
     result |-> result, exc |-> e]

\* self.evaluate(field, scope) from the frame f, which moves on to pc
Call(f, pc, field, idx, scope) ==
    /\ \E child \in ReadNode(field, ops) :
        /\ stack' = Append(Below, [f EXCEPT !.pc = pc])
                      \o <<Frame(child, f.path \o <<idx>>, scope)>>
        /\ ops' = ops + Reads(field, child)
    /\ ret' = NoValue
    /\ UNCHANGED <<strict, id_generator, dag, root_scope, exc, log, last,
                   calls, prev, parse_vars>>

\* the scope objects still referenced once only the frames of st remain: the
\* host's, and the copies of the DefineTables handlers still active (a copy is
\* created after every object that is older than its handler)
Alive(st) ==
    LET live == {1} \cup {st[i].scope : i \in 1..Len(st)}
    IN  SubSeq(scopes, 1, CHOOSE m \in live : \A r \in live : r <= m)

\* the frame f returns table
Return(f, table, draws, gen) ==
    /\ stack' = Below
    /\ scopes' = Alive(Below)
    /\ ret' = Value(table)
    /\ id_generator' = gen
    /\ log' = log \o Logged(f.path, draws)
    /\ last' = CallRecord(f, draws, Value(table), None)
    /\ UNCHANGED <<strict, dag, ops, root_scope, exc, calls, prev, parse_vars>>

\* the frame f raises e: no handler catches, the evaluation ends
Raise(f, e, draws, gen) ==
    /\ stack' = <<>>
    /\ scopes' = Alive(<<>>)
    /\ ret' = NoValue
    /\ exc' = e
    /\ id_generator' = gen
    /\ log' = log \o Logged(f.path, draws)
    /\ last' = CallRecord(f, draws, NoValue, e)
    /\ UNCHANGED <<strict, dag, ops, root_scope, calls, prev, parse_vars>>

Finish(f, out) ==
    IF out.exc # None
    THEN Raise(f, out.exc, out.draws, out.gen)
    ELSE Return(f, out.table, out.draws, out.gen)

\* the outcome of a handler body that draws no id
Pure(out) == [exc |-> out.exc, gen |-> id_generator, draws |-> <<>>,
              table |-> IF out.exc = None THEN out.table ELSE _get_dual]

\* ------------------------------------------------------------------- Init
\* a new executor: _set_id_generator(None), _set_strict(strict)
\* an executor that keeps the generator the host used before
_set_id_generator_shared(used) == used

\* _set_id_generator(None): a new default generator, whatever was used before
_set_id_generator(used) == default_id_generator

ExecInit ==
    /\ strict \in BOOLEAN
    /\ id_generator = _set_id_generator(default_id_generator)
    /\ ops = 0
    /\ root_scope = <<>>
    /\ scopes = <<>>
    /\ stack = <<>>
    /\ ret = NoValue
    /\ exc = None
    /\ log = <<>>
    /\ last = NoCall
    /\ calls = 0
    /\ prev = NoRun

ParseIdle ==
    /\ query = <<>>
    /\ what = None
    /\ parsed = [pc |-> "idle"]

\* no tree construction is under way
BuildIdle ==
    /\ fold_seq = <<>>
    /\ built = [pc |-> "idle"]

Init ==
    /\ ExecInit
    /\ dag = Unread
    /\ ParseIdle
    /\ BuildIdle

\* ---------------------------------------------------------------- actions
\* the host calls executor.evaluate(node, scope)
evaluate ==
    /\ calls = 0
    /\ \E scope \in HostScopes, node \in ReadNode(dag, ops) :
        /\ root_scope' = scope
        /\ scopes' = <<scope>>
        /\ stack' = <<Frame(node, <<>>, 1)>>
        /\ ops' = ops + Reads(dag, node)
    /\ calls' = 1
    /\ UNCHANGED <<strict, id_generator, dag, ret, exc, log, last, prev, parse_vars>>

evaluate_literal ==
    /\ At("literal", "start")
    /\ Return(Top, Top.node.value, <<>>, id_generator)

\* scope[node.table] of a dict: [exc, table]
scope_lookup(scope, name) ==
    IF name \in DOMAIN scope THEN [exc |-> None, table |-> scope[name]]
    ELSE [exc |-> "KeyError"]

\* evaluate_get_table: [exc, table]
get_table_body(node, scope) ==
    LET found == IF node.table = "DUAL" THEN [exc |-> None, table |-> _get_dual]
                 ELSE scope_lookup(scope, node.table)
        alias == IF node.alias # None THEN node.alias ELSE node.table
    IN  IF found.exc # None THEN [exc |-> found.exc]
        ELSE [exc |-> None, table |-> ensure_table_columns(alias, found.table)]

evaluate_get_table ==
    /\ At("get_table", "start")
    /\ Finish(Top, Pure(get_table_body(Top.node, scopes[Top.scope])))

\* `scope = scope` in place of the copy: the handler keeps the caller's object
scope_alias(heap, ref) == [scopes |-> heap, ref |-> ref]

\* scope = scope.copy(): [scopes, ref], the new object and the reference to it
scope_copy(heap, ref) == [scopes |-> Append(heap, heap[ref]), ref |-> Len(heap) + 1]

\* scope[name] = table
scope_set(scope, name, table) ==
    [n \in DOMAIN scope \cup {name} |-> IF n = name THEN table ELSE scope[n]]

\* the scope the handler was called with, before its scope.copy()
define_tables_caller_scope(f) == f.scope_in

\* the scope the sub-plans of a DefineTables frame are evaluated in: the local
\* `scope`, which is the copy by the time the loop runs
define_tables_sub_scope(f) == f.scope

evaluate_define_tables ==
    /\ At("define_tables", "start")
    /\ LET copy == scope_copy(scopes, Top.scope)
           g == [Top EXCEPT !.scope = copy.ref]
       IN  /\ scopes' = copy.scopes
           /\ IF Len(g.node.tables) > 0
              THEN Call(g, "tables", g.node.tables[1][2], 1, define_tables_sub_scope(g))
              ELSE Call(g, "node", g.node.node, 1, g.scope)

\* scope[name] = <the sub-plan's table>, then the next sub-plan or the body
evaluate_define_tables_bind ==
    /\ At("define_tables", "tables")
    /\ LET i == Len(Top.vals) + 1
           g == [Top EXCEPT !.vals = Append(@, ret.value)]
       IN  /\ scopes' = [scopes EXCEPT ![g.scope] =
                            scope_set(@, g.node.tables[i][1], ret.value)]
           /\ IF i < Len(g.node.tables)
              THEN Call(g, "tables", g.node.tables[i + 1][2], i + 1,
                        define_tables_sub_scope(g))
              ELSE Call(g, "node", g.node.node, i + 1, g.scope)

evaluate_define_tables_return ==
    /\ At("define_tables", "node")
    /\ Return(Top, ret.value, <<>>, id_generator)

evaluate_transform ==
    /\ At("transform", "start")
    /\ Call(Top, "table", Top.node.table, 1, Top.scope)
    /\ UNCHANGED scopes

evaluate_transform_columns ==
    /\ At("transform", "table")
    /\ \E columns \in ReadColumns(Top.node.columns, TransformColumns) :
         LET f == [Top EXCEPT !.vals = <<ret.value>>, !.node.columns = columns]
             body(cols) == transform_body(cols, ret.value, id_generator)
         IN  /\ IsUnreadColumns(Top.node.columns) => ReadInOrder(columns, body)
             /\ Finish(f, body(columns))

evaluate_filter ==
    /\ At("filter", "start")
    /\ Call(Top, "table", Top.node.table, 1, Top.scope)
    /\ UNCHANGED scopes

evaluate_filter_condition ==
    /\ At("filter", "table")
    /\ LET f == [Top EXCEPT !.vals = <<ret.value>>]
       IN  Finish(f, Pure(filter_body(f.node.filter, ret.value)))

evaluate_drop_duplicates ==
    /\ At("drop_duplicates", "start")
    /\ Call(Top, "table", Top.node.table, 1, Top.scope)
    /\ UNCHANGED scopes

evaluate_drop_duplicates_return ==
    /\ At("drop_duplicates", "table")
    /\ LET f == [Top EXCEPT !.vals = <<ret.value>>]
       IN  Return(f, drop_duplicates(ret.value), <<>>, id_generator)

evaluate_aggregate ==
    /\ At("aggregate", "start")
    /\ Call(Top, "table", Top.node.table, 1, Top.scope)
    /\ UNCHANGED scopes

evaluate_aggregate_columns ==
    /\ At("aggregate", "table")
    /\ \E group_by \in ReadGroupBy(Top.node.group_by),
          columns \in ReadColumns(Top.node.columns, AggregateColumns) :
         LET f == [Top EXCEPT !.vals = <<ret.value>>, !.node.columns = columns,
                              !.node.group_by = group_by]
             body(cols) == aggregate_body(cols, group_by, ret.value, id_generator)
         IN  /\ IsUnreadColumns(Top.node.columns) => ReadInOrder(columns, body)
             /\ Finish(f, body(columns))

\* the test of evaluate_join without its `not`
takes_non_equality_path_inverted(on) == is_equality_join(on)

\* `if not is_equality_join(node.on)` of evaluate_join
takes_non_equality_path(on) == ~is_equality_join(on)

\* the arguments of self._merge in evaluate_join
merge_call(node, cond) ==
    [event |-> "merge", how |-> node.how,
     left_on |-> cond.left_on, right_on |-> cond.right_on]

\* a strict mode that hands the merge result back without the filter
strict_subdag_unfiltered(result, on) == Literal(result)

\* the sub-DAG strict mode evaluates: _dag.Filter(_dag.Literal(result), node.on)
strict_subdag(result, on) == Filter(Literal(result), on)

evaluate_join ==
    /\ At("join", "start")
    /\ LET ne == takes_non_equality_path(Top.node.on)
           g == [Top EXCEPT !.trace = IF ne THEN <<[event |-> "non_equality"]>>
                                     ELSE <<[event |-> "left"]>>]
       IN  Call(g, IF ne THEN "ne_left" ELSE "left", g.node.left, 1, g.scope)
    /\ UNCHANGED scopes

evaluate_join_right ==
    /\ At("join", "left")
    /\ LET g == [Top EXCEPT !.vals = <<ret.value>>,
                            !.trace = Append(@, [event |-> "right"])]
       IN  Call(g, "right", g.node.right, 2, g.scope)
    /\ UNCHANGED scopes

evaluate_join_merge ==
    /\ At("join", "right")
    /\ \E how \in ReadHow(Top.node.how) :
         LET f == [Top EXCEPT !.vals = Append(@, ret.value), !.node.how = how]
             left == f.vals[1]
             right == f.vals[2]
             cond == as_pandas_join_condition(left.columns, right.columns, f.node.on)
             args == merge_call(f.node, cond)
             result == _merge(left, right, args.how, args.left_on, args.right_on)
             g == [f EXCEPT !.vals = Append(@, result), !.trace = Append(@, args)]
         IN  IF f.node.how \notin {"inner", "outer", "left", "right"}
             THEN Raise(f, "AssertionError", <<>>, id_generator)
             ELSE IF ~cond.ok
             THEN Raise(f, "ValueError", <<>>, id_generator)
             ELSE IF strict
             THEN Call(g, "strict", strict_subdag(result, f.node.on), 3, g.scope)
                  /\ UNCHANGED scopes
             ELSE Return(g, result, <<>>, id_generator)

evaluate_join_strict ==
    /\ At("join", "strict")
    /\ Return(Top, ret.value, <<>>, id_generator)

\* _evaluate_non_equality_join: the cross product of the inputs, then Filter(on)
non_equality_join_right ==
    /\ At("join", "ne_left")
    /\ LET g == [Top EXCEPT !.vals = <<ret.value>>]
       IN  Call(g, "ne_right", g.node.right, 2, g.scope)
    /\ UNCHANGED scopes

non_equality_join_filter ==
    /\ At("join", "ne_right")
    /\ LET f == [Top EXCEPT !.vals = Append(@, ret.value)]
       IN  Finish(f, Pure(filter_body(f.node.on, cross_product(f.vals[1], f.vals[2]))))

ExecNext ==
    \/ evaluate
    \/ evaluate_literal
    \/ evaluate_get_table
    \/ evaluate_define_tables
    \/ evaluate_define_tables_bind
    \/ evaluate_define_tables_return
    \/ evaluate_transform
    \/ evaluate_transform_columns
    \/ evaluate_filter
    \/ evaluate_filter_condition
    \/ evaluate_drop_duplicates
    \/ evaluate_drop_duplicates_return
    \/ evaluate_aggregate
    \/ evaluate_aggregate_columns
    \/ evaluate_join
    \/ evaluate_join_right
    \/ evaluate_join_merge
    \/ evaluate_join_strict
    \/ non_equality_join_right
    \/ non_equality_join_filter

Next == ExecNext

Spec == Init /\ [][Next]_vars

\* ------------------------------------------------------------------ parse
\* A query string is its lexemes joined by blanks: two keywords, an integer,
\* a line comment (`-- c\n`) and a character no rule of the splitter matches.
Lexemes == {"show", "select", "1", "--", "@"}
Queries == {<<>>} \cup SeqsUpTo(Lexemes, MaxQueryLen)

\* what: the default parser, or the class of a constructor
Whats == {None, "Select", "Integer"}

\* ast nodes
Show(args) == [type |-> "Show", args |-> args]
Select(columns) == [type |-> "Select", columns |-> columns]

\* a parser's result: matches (or None: failure), the unconsumed tokens
Matched(matches, rest) == [is_none |-> FALSE, matches |-> matches, rest |-> rest]
Failed(seq) == [is_none |-> TRUE, matches |-> <<>>, rest |-> seq]

RECURSIVE splitter(_)
\* repeat(any(...)) on the raw text: [parts, rest]; comments and blanks are
\* ignored, the first text no alternative matches ends the repetition
splitter(text) ==
    IF text = <<>> THEN [parts |-> <<>>, rest |-> <<>>]
    ELSE IF Head(text) = "@" THEN [parts |-> <<>>, rest |-> text]
    ELSE LET more == splitter(Tail(text))
         IN  IF Head(text) = "--" THEN more
             ELSE [more EXCEPT !.parts = <<Head(text)>> \o @]

integer(seq) ==
    IF seq # <<>> /\ Head(seq) = "1"
    THEN Matched(<<Integer(Head(seq))>>, Tail(seq))
    ELSE Failed(seq)

\* select on these tokens: `select`, no quantifier, the column list, none of
\* the optional clauses
select(seq) ==
    IF Len(seq) >= 2 /\ seq[1] = "select" /\ seq[2] = "1"
    THEN Matched(<<Select(<<Column(Integer(seq[2]), None)>>)>>, SubSeq(seq, 3, Len(seq)))
    ELSE Failed(seq)

show_option(seq) ==
    IF SubSeq(seq, 1, IF Len(seq) = 0 THEN 0 ELSE 1) # <<"show">> THEN Failed(seq)
    ELSE Matched(<<Show(Tail(seq))>>, <<>>)

\* m.any(select, copy_from, copy_to, drop_tabe, create_table_as, show_option):
\* the first alternative that succeeds; the four statements in between start
\* with keywords these tokens do not have
parser(seq) ==
    IF ~select(seq).is_none THEN select(seq)
    ELSE IF ~show_option(seq).is_none THEN show_option(seq)
    ELSE Failed(seq)

constructors(cls, seq) == IF cls = "Select" THEN select(seq) ELSE integer(seq)

used_parser(w, seq) == IF w # None THEN constructors(w, seq) ELSE parser(seq)

\* `if rest:` of parse
rest_is_truthy(rest) == rest # <<>>

ParseEnds(e, result) ==
    parsed' = [parsed EXCEPT !.pc = "done", !.exc = e, !.result = result]

\* parse(query, what) is called
parse ==
    /\ parsed.pc = "idle"
    /\ query' \in Queries
    /\ what' \in Whats
    /\ parsed' = [pc |-> "tokenize", tokens |-> <<>>, ast |-> Failed(<<>>),
                  result |-> <<>>, exc |-> None]
    /\ UNCHANGED <<exec_vars, build_vars>>

\* tokens = tokenize(query)
tokenize ==
    /\ parsed.pc = "tokenize"
    /\ LET split == splitter(query)
       IN  IF split.rest # <<>> THEN ParseEnds("ValueError", <<>>)
           ELSE parsed' = [parsed EXCEPT !.pc = "used_parser", !.tokens = split.parts]
    /\ UNCHANGED <<exec_vars, query, what, build_vars>>

\* ast, rest, debug = used_parser(tokens)
parse_tokens ==
    /\ parsed.pc = "used_parser"
    /\ parsed' = [parsed EXCEPT !.pc = "check", !.ast = used_parser(what, parsed.tokens)]
    /\ UNCHANGED <<exec_vars, query, what, build_vars>>

\* the checks of parse and its return; len(None) is a TypeError
parse_return ==
    /\ parsed.pc = "check"
    /\ LET ast == parsed.ast
       IN  IF rest_is_truthy(ast.rest) THEN ParseEnds("ValueError", <<>>)
           ELSE IF ast.is_none THEN ParseEnds("TypeError", <<>>)
           ELSE IF Len(ast.matches) # 1 THEN ParseEnds("RuntimeError", <<>>)
           ELSE ParseEnds(None, <<ast.matches[1]>>)
    /\ UNCHANGED <<exec_vars, query, what, build_vars>>

ParseNext ==
    \/ parse
    \/ tokenize
    \/ parse_tokens
    \/ parse_return

SpecParse == Init /\ [][ParseNext]_vars

\* ------------------------------------------------------- two evaluations
\* The host evaluates one DAG twice, each time on a new executor and with a
\* scope of its choice.  The DAG is given in full from the start.
RerunColumns ==
    {<<Column(K, None)>>, <<Column(One, None)>>, <<Column(One, None), Column(K, "c")>>}
RerunAggregates ==
    {<<Column(GeneralSetFunction("sum", K, None), None)>>,
     <<Column(GeneralSetFunction("sum", K, None), "c"),
       Column(GeneralSetFunction("sum", K, None), None)>>}
RerunLeaves == {GetTable("t", None), GetTable("u", None)}

RECURSIVE RerunDags(_)
\* the DAGs of at most n operator nodes on a path
RerunDags(n) ==
    IF n = 0 THEN RerunLeaves
    ELSE LET below == RerunDags(n - 1)
         IN  below
             \cup {Transform(c, cols) : c \in below, cols \in RerunColumns}
             \cup {Filter(c, f) : c \in below, f \in FilterExprs}
             \cup {DropDuplicates(c) : c \in below}
             \cup {Aggregate(c, cols, g) : c \in below, cols \in RerunAggregates,
                                          g \in {NoGroupBy, GroupBy(<<K>>)}}
             \cup {Join(c, GetTable("u", None), how, on) :
                        c \in below, how \in {"inner", "outer"}, on \in OnExprs}
             \cup {DefineTables(<< <<"u", GetTable("t", None)>> >>, c) : c \in below}

InitRerun ==
    /\ ExecInit
    /\ dag \in RerunDags(MaxDepth)
    /\ ParseIdle
    /\ BuildIdle

\* the first evaluation is over: the host keeps what it drew and evaluates the
\* DAG again on a new executor
reevaluate ==
    /\ calls = 1
    /\ stack = <<>>
    /\ prev' = [done |-> TRUE, log |-> log, exc |-> exc, root_scope |-> root_scope]
    /\ strict' \in BOOLEAN
    /\ id_generator' = _set_id_generator(id_generator)
    /\ \E scope \in HostScopes :
        /\ root_scope' = scope
        /\ scopes' = <<scope>>
    /\ stack' = <<Frame(dag, <<>>, 1)>>
    /\ ret' = NoValue
    /\ exc' = None
    /\ log' = <<>>
    /\ last' = NoCall
    /\ calls' = 2
    /\ UNCHANGED <<dag, ops, parse_vars>>

NextRerun ==
    \/ ExecNext
    \/ reevaluate

SpecRerun == InitRerun /\ [][NextRerun]_vars

\* ------------------------------------------------------ tree construction
\* build_binary_tree and build_joins are the functions m.transform applies
\* to the match list of binary_op and of table_like.
Token(text) == [type |-> "token", value |-> text]
Name(n) == [type |-> "Name", name |-> n]
BinaryOp(op, left, right) ==
    [type |-> "BinaryOp", operator |-> op, left |-> left, right |-> right]
TableRef(n) == [type |-> "TableRef", name |-> n]
NoneNode == [type |-> "None"]
AstJoin(how, left, right, on) ==
    [type |-> "Join", how |-> how, left |-> left, right |-> right, on |-> on]

\* the elements of a list_of(operator, value) match: values, among them a
\* tree a tighter-binding level built, and operator tokens, in any order
TreeElements ==
    {Name("a"), Name("b"), Token("+"), BinaryOp(Token("*"), Name("a"), Name("b"))}
TreeLists == {<<>>} \cup SeqsUpTo(TreeElements, MaxSeqLen)
\* the match lists handed to build_binary_tree: none, one or two matches
TreeMatches ==
    {<<>>} \cup {<<s>> : s \in TreeLists}
    \cup {<<s, t>> : s \in {<<Name("a")>>, <<Name("a"), Token("+"), Name("b")>>},
                     t \in {<<>>, <<Name("b")>>}}

\* what may follow the base in the match list of table_like
JoinElements ==
    {AstJoin("inner", NoneNode, TableRef("u"), Name("p")),
     AstJoin("left", NoneNode, TableRef("v"), Name("q")),
     AstJoin("outer", TableRef("x"), TableRef("w"), Name("p")),
     TableRef("y")}
JoinLists ==
    {<<>>} \cup
    {<<base>> \o joins :
        base \in {TableRef("t"), AstJoin("inner", NoneNode, TableRef("s"), Name("p"))},
        joins \in {<<>>} \cup SeqsUpTo(JoinElements, MaxJoins)}

RECURSIVE _impl_left_nested(_)
\* the fold from the left: ((v0 op1 v1) op2 v2) ...
_impl_left_nested(s) ==
    IF Len(s) % 2 # 1 THEN [exc |-> "AssertionError"]
    ELSE IF Len(s) = 1 THEN [exc |-> None, value |-> s[1]]
    ELSE _impl_left_nested(<<BinaryOp(s[2], s[1], s[3])>> \o SubSeq(s, 4, Len(s)))

RECURSIVE _impl(_)
\* _impl of build_binary_tree: [exc, value]
_impl(s) ==
    IF Len(s) % 2 # 1 THEN [exc |-> "AssertionError"]
    ELSE IF Len(s) = 1 THEN [exc |-> None, value |-> s[1]]
    ELSE LET rest == _impl(SubSeq(s, 3, Len(s)))
         IN  IF rest.exc # None THEN rest
             ELSE [exc |-> None, value |-> BinaryOp(s[2], s[1], rest.value)]

BuildEnds(e, result) ==
    built' = [pc |-> "done", fn |-> built.fn, result |-> result, exc |-> e]

\* build_binary_tree(seq)
build_binary_tree ==
    /\ built.pc = "call"
    /\ built.fn = "build_binary_tree"
    /\ IF Len(fold_seq) # 1 THEN BuildEnds("AssertionError", <<>>)
       ELSE LET tree == _impl(fold_seq[1])
            IN  IF tree.exc # None THEN BuildEnds(tree.exc, <<>>)
                ELSE BuildEnds(None, <<tree.value>>)
    /\ UNCHANGED <<exec_vars, query, what, parsed, fold_seq>>

\* join.update(left=current): the node with its left replaced
join_update(join, current) == [join EXCEPT !.left = current]

\* a loop body that keeps the join as it was parsed
loop_current_not_chained(join, current) == join

\* current = join.update(left=current)
loop_current(join, current) == join_update(join, current)

\* build_joins(seq) up to its loop: current, joins = seq[0], seq[1:]
build_joins ==
    /\ built.pc = "call"
    /\ built.fn = "build_joins"
    /\ IF fold_seq = <<>> THEN BuildEnds("IndexError", <<>>)
       ELSE IF Tail(fold_seq) = <<>> THEN BuildEnds(None, <<Head(fold_seq)>>)
       ELSE built' = [pc |-> "loop", fn |-> built.fn, current |-> Head(fold_seq),
                      joins |-> Tail(fold_seq)]
    /\ UNCHANGED <<exec_vars, query, what, parsed, fold_seq>>

\* one iteration of `for join in joins`
build_joins_loop ==
    /\ built.pc = "loop"
    /\ built.joins # <<>>
    /\ LET join == Head(built.joins)
       IN  IF join.type = "Join"
           THEN built' = [built EXCEPT !.current = loop_current(join, built.current),
                                       !.joins = Tail(built.joins)]
           ELSE BuildEnds("NotImplementedError", <<>>)
    /\ UNCHANGED <<exec_vars, query, what, parsed, fold_seq>>

\* the loop is over: return [current]
build_joins_return ==
    /\ built.pc = "loop"
    /\ built.joins = <<>>
    /\ BuildEnds(None, <<built.current>>)
    /\ UNCHANGED <<exec_vars, query, what, parsed, fold_seq>>

InitBuild ==
    /\ ExecInit
    /\ dag = Unread
    /\ ParseIdle
    /\ \/ /\ built = [pc |-> "call", fn |-> "build_binary_tree"]
          /\ fold_seq \in TreeMatches
       \/ /\ built = [pc |-> "call", fn |-> "build_joins"]
          /\ fold_seq \in JoinLists

BuildNext ==
    \/ build_binary_tree
    \/ build_joins
    \/ build_joins_loop
    \/ build_joins_return

SpecBuild == InitBuild /\ [][BuildNext]_vars

\* ------------------------------------------------------------------ claims
TableIdDraws == {i \in 1..Len(log) : log[i].what = "table_id"}

\* C1: within one evaluation with the default id generator, the table_id a
\* Transform or Aggregate node draws differs from the table_id every other
\* node draws, whatever the shape of the DAG and although the column ids of
\* un-aliased columns come from the same generator.
C1_TableIdsDistinct ==
    \A i, j \in TableIdDraws : i # j => log[i].id # log[j].id

\* two nodes have drawn a table_id and a column id was drawn as well
C1_Witness ==
    /\ \E i, j \in TableIdDraws : log[i].node # log[j].node
    /\ \E k \in 1..Len(log) : log[k].what = "col_id"

\* the calls of evaluate_join seen in the state: the active ones and the one
\* that ended last
JoinCalls ==
    {[node |-> stack[i].node, trace |-> stack[i].trace, vals |-> stack[i].vals,
      started |-> stack[i].pc # "start", returned |-> FALSE] : i \in {n \in 1..Len(stack) : stack[n].node.kind = "join"}}
    \cup IF last.kind = "join"
         THEN {[node |-> last.node, trace |-> last.trace, vals |-> last.vals,
                started |-> TRUE, returned |-> last.exc = None]}
         ELSE {}

IsPrefix(s, t) == Len(s) <= Len(t) /\ \A n \in 1..Len(s) : s[n] = t[n]
Designates(ref, column) ==
    /\ Last(column) = Last(ref.value)
    /\ Len(ref.value) = 2 => column[1] = ref.value[1]

\* the merge event of an equality join passes node.how and, per equality of
\* on, the column of the left input and the column of the right input
MergesAsAsked(j, e) ==
    LET eqs == Equalities(j.node.on)
    IN  /\ e.how = j.node.how
        /\ Len(e.left_on) = Len(eqs) /\ Len(e.right_on) = Len(eqs)
        /\ \A n \in 1..Len(eqs) :
            /\ e.left_on[n] \in Range(j.vals[1].columns)
            /\ e.right_on[n] \in Range(j.vals[2].columns)
            /\ \/ Designates(eqs[n].left, e.left_on[n])
                  /\ Designates(eqs[n].right, e.right_on[n])
               \/ Designates(eqs[n].right, e.left_on[n])
                  /\ Designates(eqs[n].left, e.right_on[n])

\* C2: evaluate_join takes the non-equality path exactly when on is not a
\* conjunction of column equalities; for an equality on it evaluates the
\* left input, then the right input, then calls the backend merge once with
\* how = node.how and the key lists of on, and never the non-equality path.
C2_JoinPath ==
    \A j \in JoinCalls :
        IF is_equality_join(j.node.on)
        THEN /\ Len(j.trace) <= 3
             /\ j.started => Len(j.trace) >= 1
             /\ \A n \in 1..Len(j.trace) :
                    j.trace[n].event = <<"left", "right", "merge">>[n]
             /\ Len(j.trace) = 3 => MergesAsAsked(j, j.trace[3])
             /\ j.returned => Len(j.trace) = 3
        ELSE /\ IsPrefix(j.trace, <<[event |-> "non_equality"]>>)
             /\ j.started => Len(j.trace) = 1

\* an equality join has returned after its one merge
C2_Witness ==
    /\ last.kind = "join"
    /\ last.exc = None
    /\ is_equality_join(last.node.on)
    /\ Len(last.trace) = 3
    /\ last.trace[3].event = "merge"
    /\ last.node.how = "outer"

\* the frames called by a DefineTables handler: a sub-plan's (the handler is
\* in its loop) or the body's
DefineTablesChildren(pcs) ==
    {i \in 2..Len(stack) :
        /\ stack[i - 1].node.kind = "define_tables"
        /\ stack[i - 1].pc \in pcs}

\* the mapping S with the first n names of tables bound to the first n of vals
RECURSIVE Bound(_, _, _, _)
Bound(S, tables, vals, n) ==
    IF n = 0 THEN S
    ELSE scope_set(Bound(S, tables, vals, n - 1), tables[n][1], vals[n])

\* C3 as stated: every sub-plan of a DefineTables node is evaluated in the
\* scope S the node was evaluated in, and only the body sees the new bindings.
C3_SubPlansInCallerScope ==
    /\ \A i \in DefineTablesChildren({"tables"}) :
        scopes[stack[i].scope_in] = scopes[stack[i - 1].scope_in]
    /\ \A i \in DefineTablesChildren({"node"}) :
        LET p == stack[i - 1]
        IN  scopes[stack[i].scope_in] =
                Bound(scopes[p.scope_in], p.node.tables, p.vals, Len(p.node.tables))

\* C3 amended: the n-th sub-plan of a DefineTables node evaluated in scope S
\* is evaluated in S with the names of the sub-plans before it bound to their
\* results, in order (never its own name or a later sibling's), and the body
\* in S with all the names bound.
C3_SubPlansSeeEarlierSiblings ==
    /\ \A i \in DefineTablesChildren({"tables"}) :
        LET p == stack[i - 1]
            n == Last(stack[i].path)
        IN  /\ Len(p.vals) = n - 1
            /\ scopes[stack[i].scope_in] =
                   Bound(scopes[p.scope_in], p.node.tables, p.vals, n - 1)
    /\ \A i \in DefineTablesChildren({"node"}) :
        LET p == stack[i - 1]
        IN  /\ Len(p.vals) = Len(p.node.tables)
            /\ scopes[stack[i].scope_in] =
                   Bound(scopes[p.scope_in], p.node.tables, p.vals, Len(p.node.tables))

\* the second sub-plan of the root DefineTables has read the table its first
\* sub-plan bound to a name the host scope does not have
C3_Witness ==
    /\ Len(stack) = 1
    /\ stack[1].node.kind = "define_tables"
    /\ stack[1].pc = "tables"
    /\ Len(stack[1].vals) = 1
    /\ stack[1].node.tables[1][1] \notin DOMAIN root_scope
    /\ last.kind = "get_table"
    /\ last.path = <<2>>
    /\ last.node.table = stack[1].node.tables[1][1]
    /\ last.exc = None

\* C4: evaluation leaves the scope mapping its caller passed unchanged,
\* whether it returns or raises: the host's mapping is the one it passed, every
\* active handler's own scope still maps what its caller's did (plus, under a
\* DefineTables node, that node's bindings so far), so the bindings of a
\* DefineTables node reach its sub-plans and body only, never a sibling or an
\* enclosing node.
C4_CallerScopeUnchanged ==
    /\ calls = 1 => scopes[1] = root_scope
    /\ \A i \in 1..Len(stack) :
        LET f == stack[i]
            p == stack[i - 1]
        IN  IF i = 1 THEN f.scope_in = 1
            ELSE IF p.node.kind = "define_tables"
            THEN scopes[f.scope_in] =
                    Bound(scopes[p.scope_in], p.node.tables, p.vals, Len(p.vals))
            ELSE scopes[f.scope_in] = scopes[p.scope_in]

\* the left input of a join was a DefineTables node that bound a name of the
\* host scope again and has returned; the right input is about to be evaluated
C4_Witness ==
    /\ Len(stack) = 2
    /\ stack[1].node.kind = "join"
    /\ Last(stack[2].path) = 2
    /\ last.kind = "define_tables"
    /\ last.path = <<1>>
    /\ last.exc = None
    /\ \E n \in 1..Len(last.node.tables) :
        /\ last.node.tables[n][1] \in DOMAIN root_scope
        /\ last.vals[n] # root_scope[last.node.tables[n][1]]

\* C5: for every query string, parse either returns exactly one AST root
\* after the selected parser consumed every token, or raises ValueError (on
\* residual text, on residual tokens and when the parser fails, the empty
\* token list included); no other exception type, no partial AST.
C5_OneRootOrValueError ==
    parsed.pc = "done" =>
        \/ /\ parsed.exc = None
           /\ Len(parsed.result) = 1
           /\ ~parsed.ast.is_none
           /\ parsed.ast.rest = <<>>
           /\ parsed.ast.matches = parsed.result
        \/ /\ parsed.exc = "ValueError"
           /\ parsed.result = <<>>

\* C6: GetTable(name, alias) with a name other than 'DUAL' returns the table
\* bound to name in the current scope (under the alias, or the name), fails
\* with ValueError and no table when the name is not bound, and with 'DUAL'
\* returns the dual table without consulting the scope.
C6_GetTable ==
    [][At("get_table", "start") =>
        LET node == Top.node
            scope == scopes[Top.scope]
            alias == IF node.alias # None THEN node.alias ELSE node.table
        IN  IF node.table = "DUAL"
            THEN exc' = None /\ ret' = Value(ensure_table_columns(alias, _get_dual))
            ELSE IF node.table \in DOMAIN scope
            THEN exc' = None /\ ret' = Value(ensure_table_columns(alias, scope[node.table]))
            ELSE exc' = "ValueError" /\ ret' = NoValue]_vars

\* an Aggregate call that got as far as its columns
AggregateEnded == last.kind = "aggregate" /\ Len(last.vals) = 1

IsSetFunction(v) == v.type = "GeneralSetFunction"
IsBare(v) == v.type = "ColumnReference"
Rejected(col) ==
    \/ ~IsSetFunction(col.value)
    \/ ~IsBare(col.value.value)
    \/ Upper(col.value.function) \notin SetFunctions
Accepted(col) ==
    /\ IsSetFunction(col.value)
    /\ IsBare(col.value.value)
    /\ Upper(col.value.function) \in SetFunctions
    /\ col.value.quantifier = None
Resolves(ref, table) == _normalize_col_ref(ref.value, table.columns) # 0

\* C7: an Aggregate node raises ValueError and returns no table whenever a
\* declared column is not a set function, or its argument is not a bare
\* column reference, or its function (case-insensitively) is not one of SUM,
\* AVG, MIN, MAX, COUNT, FIRST_VALUE, or a GROUP BY target is not a bare
\* column reference; allowed set functions over bare columns of the input
\* with no quantifier raise no such error.
C7_AggregateErrors ==
    AggregateEnded =>
        LET columns == last.node.columns
            group_by == last.node.group_by
            table == last.vals[1]
            indirect == ~group_by.is_none
                        /\ \E n \in 1..Len(group_by.targets) : ~IsBare(group_by.targets[n])
        IN  /\ (indirect \/ \E n \in 1..Len(columns) : Rejected(columns[n]))
                => last.exc = "ValueError" /\ ~last.result.has
            /\ ( /\ \A n \in 1..Len(columns) :
                        Accepted(columns[n]) /\ Resolves(columns[n].value.value, table)
                 /\ group_by.is_none
                    \/ \A n \in 1..Len(group_by.targets) :
                            IsBare(group_by.targets[n]) /\ Resolves(group_by.targets[n], table) )
                => last.exc = None

BothSucceeded ==
    /\ calls = 2
    /\ stack = <<>>
    /\ exc = None
    /\ prev.done
    /\ prev.exc = None

\* C8: two successful evaluations of one DAG, each starting from a new
\* default id generator, draw the same ids in the same order for the same
\* nodes (table_id and synthesized column ids alike), whatever tables the
\* scopes hold.
C8_SameIds == BothSucceeded => log = prev.log

\* both evaluations succeeded on scopes that differ and drew a table_id and
\* a column id
C8_Witness ==
    /\ BothSucceeded
    /\ prev.root_scope # root_scope
    /\ \E i, j \in 1..Len(log) : log[i].what = "table_id" /\ log[j].what = "col_id"

\* an equality join has returned; vals = <<left, right, merge result>>
EqualityJoinReturned ==
    /\ last.kind = "join"
    /\ last.exc = None
    /\ is_equality_join(last.node.on)

RECURSIVE Truthy(_, _, _)
\* the on predicate at row i of t: a conjunction of equalities of two columns,
\* an equality being truthy when both values are present and equal
Truthy(on, t, i) ==
    IF on.operator = "and" THEN Truthy(on.left, t, i) /\ Truthy(on.right, t, i)
    ELSE LET l == t.data[_normalize_col_ref(on.left.value, t.columns)][i]
             r == t.data[_normalize_col_ref(on.right.value, t.columns)][i]
         IN  l # Null /\ r # Null /\ l = r

\* C9: for an equality join, strict mode returns exactly the rows of the
\* backend merge result where the whole on predicate is truthy, with the
\* merge result's columns, a fresh row index and no id drawn; without strict
\* mode it returns the merge result as it is.
C9_StrictJoin ==
    EqualityJoinReturned =>
        LET merge == last.trace[3]
            merged == last.vals[3]
            out == last.result.value
            P(i) == Truthy(last.node.on, merged, i)
            keep == SelectPos(P, 1, NRows(merged))
        IN  /\ merged = _merge(last.vals[1], last.vals[2], merge.how,
                               merge.left_on, merge.right_on)
            /\ IF strict
               THEN /\ out.columns = merged.columns
                    /\ out.index = Positions(Len(keep))
                    /\ out.data = [c \in 1..Len(merged.columns) |->
                                     [r \in 1..Len(keep) |-> merged.data[c][keep[r]]]]
                    /\ last.draws = <<>>
                    /\ \A k \in 1..Len(log) :
                        log[k].node \notin {last.path, last.path \o <<3>>}
               ELSE out = merged

\* a strict equality join has returned fewer rows than the merge gave it
C9_Witness ==
    /\ EqualityJoinReturned
    /\ strict
    /\ NRows(last.result.value) < NRows(last.vals[3])
    /\ NRows(last.result.value) > 0

\* a Transform call that got as far as its columns; vals = <<input>>
TransformEnded == last.kind = "transform" /\ Len(last.vals) = 1
TransformReturned == TransformEnded /\ last.exc = None

IsSynthesized(col) == col.alias = None /\ col.value.type # "ColumnReference"
\* the col_id of the n-th projected column, given the ids the call drew
ColIdOf(columns, draws, n) ==
    LET col == columns[n]
        k == Cardinality({m \in 1..n : IsSynthesized(columns[m])})
    IN  IF col.alias # None THEN col.alias
        ELSE IF col.value.type = "ColumnReference" THEN Last(col.value.value)
        ELSE draws[1 + k].id
NamesOf(columns, draws) ==
    [n \in 1..Len(columns) |-> <<draws[1].id, ColIdOf(columns, draws, n)>>]

\* the input is evaluated before the one table_id is drawn, and the column
\* ids are drawn after it, in projection order: the draws of the call are the
\* generator's next values once the input's are made
DrawsInOrder ==
    LET draws == last.draws
        before == Len(log) - Len(draws)
    IN  /\ Len(draws) >= 1
        /\ draws[1].what = "table_id"
        /\ \A j \in 2..Len(draws) : draws[j].what = "col_id"
        /\ \A j \in 1..Len(draws) :
            /\ log[before + j] = [node |-> last.path, what |-> draws[j].what,
                                  id |-> draws[j].id]
            /\ draws[j].id = IdOf(before + j - 1)
        /\ \A k \in 1..before : log[k].node # last.path
        /\ Len(draws) - 1 <= Cardinality({n \in 1..Len(last.node.columns) :
                                            IsSynthesized(last.node.columns[n])})
        /\ last.exc = None =>
            Len(draws) - 1 = Cardinality({n \in 1..Len(last.node.columns) :
                                            IsSynthesized(last.node.columns[n])})

NoInputNameSurvives ==
    Range(last.result.value.columns) \cap Range(last.vals[1].columns) = {}

\* C10 as stated: Transform evaluates its input, draws one table_id, then
\* handles the projected columns in order, and the output has exactly one
\* column per projected column, in projection order, named table_id.col_id
\* (alias, else terminal name of a column reference, else a fresh id), and
\* no column name of the input.
C10_OneColumnPerProjected ==
    /\ TransformEnded => DrawsInOrder
    /\ TransformReturned =>
        /\ last.result.value.columns = NamesOf(last.node.columns, last.draws)
        /\ NoInputNameSurvives

\* C10 amended: as stated, except that projected columns with the same
\* col_id share one output column: the output has one column per distinct
\* col_id, at the place of the first projected column with that col_id and
\* with the value of the last one.
C10_OneColumnPerColId ==
    /\ TransformEnded => DrawsInOrder
    /\ TransformReturned =>
        LET columns == last.node.columns
            table == last.vals[1]
            out == last.result.value
            names == NamesOf(columns, last.draws)
            IsFirst(n) == \A m \in 1..(n - 1) : names[m] # names[n]
            firsts == SelectPos(IsFirst, 1, Len(columns))
            final(j) == CHOOSE n \in 1..Len(columns) :
                            /\ names[n] = names[firsts[j]]
                            /\ \A m \in (n + 1)..Len(columns) : names[m] # names[n]
        IN  /\ out.columns = [j \in 1..Len(firsts) |-> names[firsts[j]]]
            /\ out.data = [j \in 1..Len(firsts) |->
                             evaluate_value(columns[final(j)].value, table).series.values]
            /\ NoInputNameSurvives

\* a Transform of two projected columns with one col_id has returned
C10_Witness ==
    /\ TransformReturned
    /\ Len(last.node.columns) = 2
    /\ Len(last.result.value.columns) = 1
    /\ last.node.columns[1].value # last.node.columns[2].value

TreeBuilt == built.pc = "done" /\ built.fn = "build_binary_tree"

RECURSIVE IsRightNested(_, _)
\* tree is k BinaryOp nodes down its right spine
IsRightNested(tree, k) ==
    k = 0 \/ (tree.type = "BinaryOp" /\ IsRightNested(tree.right, k - 1))

RECURSIVE Flatten(_, _)
\* the leaves and operators of the k spine nodes of tree, left to right
Flatten(tree, k) ==
    IF k = 0 THEN <<tree>>
    ELSE <<tree.left, tree.operator>> \o Flatten(tree.right, k - 1)

\* C11: for an odd-length list [v0, op1, v1, ..., opk, vk] wrapped as the one
\* match, build_binary_tree returns exactly one value: v0 when k = 0, else
\* the right-nested tree of exactly k BinaryOp nodes whose leaves and
\* operators read left to right are the list; an even-length list or a match
\* list of another length than one fails the assertion.
C11_RightNestedTree ==
    TreeBuilt =>
        IF Len(fold_seq) = 1 /\ Len(fold_seq[1]) % 2 = 1
        THEN LET list == fold_seq[1]
                 k == (Len(list) - 1) \div 2
             IN  /\ built.exc = None
                 /\ Len(built.result) = 1
                 /\ k = 0 => built.result[1] = list[1]
                 /\ IsRightNested(built.result[1], k)
                 /\ Flatten(built.result[1], k) = list
        ELSE built.exc = "AssertionError" /\ built.result = <<>>

\* a list of three values and two operators has been folded
C11_Witness ==
    /\ TreeBuilt
    /\ built.exc = None
    /\ Len(fold_seq[1]) = 5
    /\ fold_seq[1][2].type = "token"
    /\ fold_seq[1][1] # fold_seq[1][3]

JoinsBuilt ==
    /\ built.pc = "done"
    /\ built.fn = "build_joins"
    /\ Len(fold_seq) >= 1

RECURSIVE IsChain(_, _)
\* node is the chain of the first n joins after the base: the n-th join with
\* its own how, right and on, its left being the chain of the n - 1 before it
IsChain(node, n) ==
    IF n = 0 THEN node = fold_seq[1]
    ELSE /\ node.type = "Join"
         /\ node.how = fold_seq[n + 1].how
         /\ node.right = fold_seq[n + 1].right
         /\ node.on = fold_seq[n + 1].on
         /\ IsChain(node.left, n - 1)

\* C12: for a list [base, join1, ..., joinN] build_joins returns exactly one
\* value: base when N = 0, else the left-nested chain with join1.left = base,
\* every later join's left the chain so far and joinN outermost, every join
\* keeping its how, right and on; an element after the base that is no Join
\* raises NotImplementedError.
C12_LeftNestedChain ==
    JoinsBuilt =>
        IF \E n \in 2..Len(fold_seq) : fold_seq[n].type # "Join"
        THEN built.exc = "NotImplementedError" /\ built.result = <<>>
        ELSE /\ built.exc = None
             /\ Len(built.result) = 1
             /\ IsChain(built.result[1], Len(fold_seq) - 1)

\* a base and three joins, one parsed with a left of its own, have been chained
C12_Witness ==
    /\ JoinsBuilt
    /\ built.exc = None
    /\ Len(fold_seq) = 4
    /\ \E n \in 2..4 : fold_seq[n].left # NoneNode
    /\ fold_seq[2] # fold_seq[3]

====
